---- MODULE Spec2Model ----
\* A model of tavern's REST stage engine: cookie negotiation, the scoped cookie
\* substitution around session.request, the redirect policy, and response
\* verification (src/tavern/_plugins/rest/request.py, response.py).
EXTENDS Integers, Sequences, FiniteSets, TLC

\* ---------------------------------------------------------------- bounds
\* Longest cookies directive (number of list items) that is enumerated.
MaxItems == 2

\* ---------------------------------------------------------------- values
Names == {"a", "b"}
Vals == {"x", "y"}

\* A Python dict of cookies: a function from a subset of Names to Vals.
EmptyDict == [n \in {} |-> "x"]
Dicts == UNION {[D -> Vals] : D \in SUBSET Names}

\* Cookies a server put in the jar (domain = the host): value and whether the
\* cookie is a session cookie (no expiry: discard) or a persistent one.
HostCookie == [value : Vals, discard : BOOLEAN]
EmptyHost == [n \in {} |-> [value |-> "x", discard |-> TRUE]]
HostDicts == UNION {[D -> HostCookie] : D \in SUBSET Names}

\* A requests cookie jar. Cookies made by cookiejar_from_dict have domain ""
\* and no expiry ("own"); cookies extracted from a response carry the host's
\* domain ("host"). Iteration visits the "" domain first: a session jar is
\* either fresh (host cookies only) or was made by cookiejar_from_dict.
Jars == [own : Dicts, host : HostDicts]
EmptyJar == [own |-> EmptyDict, host |-> EmptyHost]

\* requests.utils.dict_from_cookiejar / RequestsCookieJar.get_dict: iterate the
\* jar, later cookies of the same name overwrite earlier ones.
dict_from_cookiejar(j) ==
  [n \in (DOMAIN j.own) \cup (DOMAIN j.host) |->
     IF n \in DOMAIN j.host THEN j.host[n].value ELSE j.own[n]]

\* requests.cookies.cookiejar_from_dict: a new jar, one domain-less session
\* cookie per key.
cookiejar_from_dict(d) == [own |-> d, host |-> EmptyHost]

\* RequestsCookieJar.clear_session_cookies: drop every cookie with discard set.
clear_session_cookies(j) ==
  [own |-> EmptyDict,
   host |-> [n \in {m \in DOMAIN j.host : ~j.host[m].discard} |-> j.host[n]]]

\* ------------------------------------------------ the cookies directive
\* An item of the directive is a cookie name (verbatim reference) or a dict
\* (override map).
NameItem(n) == [isdict |-> FALSE, name |-> n, map |-> EmptyDict]
DictItem(d) == [isdict |-> TRUE, name |-> "", map |-> d]
Items == {NameItem(n) : n \in Names} \cup {DictItem(d) : d \in Dicts}
ItemSeqs == UNION {[1..k -> Items] : k \in 0..MaxItems}
\* rspec.get("cookies", None): absent, or a list (possibly empty).
NoDirective == [present |-> FALSE, items |-> <<>>]
Directives == {NoDirective} \cup [present : {TRUE}, items : ItemSeqs]

RECURSIVE SelectSeq2(_, _, _)
SelectSeq2(s, want, i) ==
  IF i > Len(s) THEN <<>>
  ELSE (IF s[i].isdict = want THEN <<s[i]>> ELSE <<>>) \o SelectSeq2(s, want, i + 1)

\* partition(lambda x: isinstance(x, dict), cookies_to_use): the non-dicts and
\* the dicts, each in directive order.
partition_expected(items) == SelectSeq2(items, FALSE, 1)
partition_extra(items) == SelectSeq2(items, TRUE, 1)

\* {k: v for mapping in extra for (k, v) in mapping.items()}: later maps win.
RECURSIVE from_extra_upto(_, _)
from_extra_upto(extra, k) ==
  IF k = 0 THEN EmptyDict
  ELSE LET prev == from_extra_upto(extra, k - 1)
           m == extra[k].map
       IN [n \in (DOMAIN prev) \cup (DOMAIN m) |->
             IF n \in DOMAIN m THEN m[n] ELSE prev[n]]
from_extra_of(extra) == from_extra_upto(extra, Len(extra))

\* tavern._core.dict_util.deep_dict_merge on flat dicts: the second wins.
deep_dict_merge(initial, update) ==
  [n \in (DOMAIN initial) \cup (DOMAIN update) |->
     IF n \in DOMAIN update THEN update[n] ELSE initial[n]]

\* Results of _read_expected_cookies: None, a dict, or a raised error.
RetNone == [kind |-> "None", cookies |-> EmptyDict]
RetDict(d) == [kind |-> "dict", cookies |-> d]
Raise(e) == [kind |-> e, cookies |-> EmptyDict]

SeqNames(expected) == {expected[i].name : i \in DOMAIN expected}

\* len(extra) != len(from_extra): the number of override maps against the
\* number of distinct override names.
DuplicateOverrideCheck(extra, from_extra) ==
  Len(extra) # Cardinality(DOMAIN from_extra)

\* The same with the presence check left out.
MissingCheckSkipped(expected, existing_cookies) == {}
MissingCookies(expected, existing_cookies) ==
  SeqNames(expected) \ DOMAIN existing_cookies

\* The same with the verbatim/override check left out.
OverwrittenNone(expected, from_extra) == {}
Overwritten(expected, from_extra) ==
  {n \in SeqNames(expected) : n \in DOMAIN from_extra}

\* from_cookiejar = {c: existing_cookies.get(c) for c in expected}
FromCookiejar(expected, existing_cookies) ==
  [n \in SeqNames(expected) |->
     IF n \in DOMAIN existing_cookies THEN existing_cookies[n] ELSE "None"]

\* _read_expected_cookies(session, rspec, test_block_config), on the formatted
\* directive.
read_expected_cookies(session_cookies, cookies_to_use) ==
  LET existing_cookies == dict_from_cookiejar(session_cookies)
      expected == partition_expected(cookies_to_use.items)
      extra == partition_extra(cookies_to_use.items)
      from_extra == from_extra_of(extra)
  IN IF ~cookies_to_use.present THEN RetNone
     ELSE IF cookies_to_use.items = <<>> THEN RetDict(EmptyDict)
     ELSE IF MissingCookies(expected, existing_cookies) # {}
       THEN Raise("MissingCookieError")
     ELSE IF DuplicateOverrideCheck(extra, from_extra)
       THEN Raise("DuplicateCookieError")
     ELSE IF Overwritten(expected, from_extra) # {}
       THEN Raise("DuplicateCookieError")
     ELSE RetDict(deep_dict_merge(FromCookiejar(expected, existing_cookies),
                                  from_extra))

\* ------------------------------------------------------ redirect policy
\* Optional booleans (a key that may be absent, a setting that may be None).
OptBool == {"None", "True", "False"}

\* _check_allow_redirects(rspec, test_block_config): the value returned, from
\* rspec.pop("follow_redirects", None) and test_block_config.follow_redirects.
\* The same with the precedence reversed: the global setting wins.
check_allow_redirects_global_wins(test_follow_redirects, global_follow_redirects) ==
  IF global_follow_redirects # "None" THEN global_follow_redirects = "True"
  ELSE IF test_follow_redirects # "None" THEN test_follow_redirects = "True"
  ELSE FALSE
check_allow_redirects(test_follow_redirects, global_follow_redirects) ==
  LET by_default == FALSE
      from_global == IF global_follow_redirects # "None"
                       THEN global_follow_redirects = "True" ELSE by_default
  IN IF test_follow_redirects # "None"
       THEN test_follow_redirects = "True" ELSE from_global

\* ------------------------------------------------ request args assembly
content_keys == {"data", "json", "files", "file_body"}
\* tavern._core.general.valid_http_methods, and a method outside it.
valid_http_methods ==
  {"GET", "PUT", "POST", "DELETE", "PATCH", "OPTIONS", "HEAD"}
MethodsTried == {"absent", "GET", "POST", "BREW"}

\* get_request_args: len(in_request) > 1 and set(in_request) != {"data",
\* "files"}, the condition of the body-exclusivity error.
\* The same without the exception made for data with files.
body_conflict_any_pair(in_request) == Cardinality(in_request) > 1
body_conflict(in_request) ==
  Cardinality(in_request) > 1 /\ in_request # {"data", "files"}

\* get_request_args: the error it raises for the keys of rspec, "" for none.
get_request_args_error(in_request, method) ==
  IF body_conflict(in_request)
    THEN "BadSchemaError"
  ELSE IF (IF method = "absent" THEN "GET" ELSE method) \notin valid_http_methods
    THEN "BadSchemaError"
  ELSE ""

\* The stage's request spec, as far as assembling reads or writes it: the
\* method ("absent" without the key), the headers key and its header names,
\* the body keys present, follow_redirects and clear_session_cookies ("None"
\* without the key), and whether a key outside the expected ones is present.
HeaderNames == {"Content-Type", "X-Id"}
NoHeaders == [present |-> FALSE, names |-> {}]
HeaderDicts == {NoHeaders} \cup [present : {TRUE}, names : SUBSET HeaderNames]
Rspecs ==
  [method : MethodsTried, headers : HeaderDicts, body : SUBSET content_keys,
   follow_redirects : OptBool, clear_session_cookies : OptBool,
   unexpected : BOOLEAN]

\* k.lower() on a header name.
lower_header(k) ==
  IF k = "Content-Type" THEN "content-type" ELSE IF k = "X-Id" THEN "x-id" ELSE k

\* get_request_args, lines 56-61: rspec["method"] = "GET" and
\* rspec["headers"] = {} where the key is missing.
with_defaults(rspec) ==
  [rspec EXCEPT !.method = IF @ = "absent" THEN "GET" ELSE @,
                !.headers = [present |-> TRUE, names |-> @.names]]

\* get_request_args, lines 77-95: with files and a content-type header,
\* rspec["headers"] becomes the lower-cased headers without content-type.
without_content_type(rspec) ==
  LET normalised_headers == {lower_header(k) : k \in rspec.headers.names}
  IN IF "files" \in rspec.body /\ "content-type" \in normalised_headers
       THEN [rspec EXCEPT !.headers.names = normalised_headers \ {"content-type"}]
       ELSE rspec

\* What a call leaves: the exception ("" for none), what the exception is
\* about, the body keys its message names, and rspec as the call left it.
NoRspec ==
  [method |-> "absent", headers |-> NoHeaders, body |-> {},
   follow_redirects |-> "None", clear_session_cookies |-> "None",
   unexpected |-> FALSE]
Outcome(error, about, named, rspec) ==
  [error |-> error, about |-> about, named |-> named, rspec |-> rspec]

\* get_request_args(rspec, test_block_config), up to the method check.
get_request_args(rspec) ==
  LET r1 == with_defaults(rspec)
      in_request == r1.body
      r2 == without_content_type(r1)
  IN IF body_conflict(in_request)
       THEN Outcome("BadSchemaError", "body", in_request, r1)
     ELSE IF get_request_args_error(in_request, r2.method) # ""
       THEN Outcome("BadSchemaError", "method", {}, r2)
     ELSE Outcome("", "", {}, r2)

\* ------------------------------------------------------------ responses
\* What one call's responses tell the jar: cookies to set for the host, and
\* names sent with an expiry in the past (a request to delete the cookie).
Responses ==
  {r \in [set : HostDicts, expire : SUBSET Names] : (DOMAIN r.set) \cap r.expire = {}}

NoResponse == [set |-> EmptyHost, expire |-> {}]

\* requests.cookies.extract_cookies_to_jar, run by Session.send on each response.
extract_cookies_to_jar(j, r) ==
  [own |-> j.own,
   host |-> [n \in ((DOMAIN j.host) \ r.expire) \cup (DOMAIN r.set) |->
               IF n \in DOMAIN r.set THEN r.set[n] ELSE j.host[n]]]

\* Session.request: merge_cookies(merge_cookies(RequestsCookieJar(),
\* self.cookies), cookies) - a request cookie is added only under a name the
\* session jar does not hold. The name-to-value mapping that is sent.
sent_cookies(j, cookies) ==
  LET kept == dict_from_cookiejar(j)
      given == IF cookies.kind = "dict" THEN cookies.cookies ELSE EmptyDict
  IN [n \in (DOMAIN kept) \cup (DOMAIN given) |->
        IF n \in DOMAIN kept THEN kept[n] ELSE given[n]]

\* ---------------------------------------------------------------- state
VARIABLES
  jar,                     \* session.cookies
  pc,                      \* position of the stage in RestRequest.__init__ / run
  request_args,            \* cookies (None or a dict) and allow_redirects
  exc,                     \* the exception the stage raised, "" for none
  old_cookies,             \* old_cookies in _set_cookies_for_request's frame
  S,                       \* the jar's name-to-value mapping when run() began
  sent,                    \* the cookies the last session.request sent
  got,                     \* what the responses of that call told the jar
  global_follow_redirects, \* test_block_config.follow_redirects
  call,                    \* the last direct call of a helper, with its result
  vpc,                     \* position of RestResponse.verify
  errors,                  \* self.errors of the RestResponse
  location,                \* whether response.headers has "location"
  save_redirect,           \* "redirect_query_params" in expected["save"]
  saved,                   \* the save sources extracted into saved so far
  outcome,                 \* how verify ended: "returned" or the exception
  violated,                \* the checks whose expectation the response violates
  executed                 \* the checks verify has run on this response

verifyVars == <<vpc, errors, location, save_redirect, saved, outcome,
                violated, executed>>

vars == <<jar, pc, request_args, exc, old_cookies, S, sent, got,
          global_follow_redirects, call, verifyVars>>

NoArgs == [cookies |-> RetNone, allow_redirects |-> FALSE]
NoCall == [fn |-> "", session |-> EmptyJar, directive |-> NoDirective,
           result |-> RetNone, follow |-> "None", allow |-> FALSE,
           rspec |-> NoRspec, out |-> Outcome("", "", {}, NoRspec)]

Init ==
  /\ jar = EmptyJar
  /\ pc = "idle"
  /\ request_args = NoArgs
  /\ exc = ""
  /\ old_cookies = EmptyDict
  /\ S = EmptyDict
  /\ sent = EmptyDict
  /\ got = NoResponse
  /\ global_follow_redirects \in OptBool
  /\ call = NoCall
  /\ vpc = "new"
  /\ errors = <<>>
  /\ location = FALSE
  /\ save_redirect = FALSE
  /\ saved = {}
  /\ outcome = ""
  /\ violated = {}
  /\ executed = {}

\* RestRequest.__init__ up to get_request_args: pop clear_session_cookies and
\* clear the session cookies, check the keys, assemble the request args.
InitBegin ==
  /\ pc = "idle"
  /\ \E clear \in OptBool, unexpected \in BOOLEAN,
        in_request \in SUBSET content_keys, method \in MethodsTried :
       LET err == IF unexpected THEN "UnexpectedKeysError"
                  ELSE get_request_args_error(in_request, method)
       IN /\ jar' = IF clear = "True" THEN clear_session_cookies(jar) ELSE jar
          /\ exc' = err
          /\ pc' = IF err = "" THEN "init_cookies" ELSE "failed"
  /\ UNCHANGED <<request_args, old_cookies, S, sent, got, global_follow_redirects, call, verifyVars>>

\* RestRequest.__init__: expected_cookies = _read_expected_cookies(...), put
\* into request_args when it is not None.
\* Where the constructor is after _read_expected_cookies: an exception
\* leaves __init__, so the stage has no request to run.
\* The same with the exception kept for run() to raise.
AfterReadExpectedCookiesDeferred(raised) == "init_redirects"
AfterReadExpectedCookies(raised) ==
  IF raised THEN "failed" ELSE "init_redirects"

InitCookies ==
  /\ pc = "init_cookies"
  /\ \E d \in Directives :
       LET r == read_expected_cookies(jar, d)
           raised == r.kind \notin {"None", "dict"}
       IN /\ request_args' = IF raised THEN request_args
                              ELSE [request_args EXCEPT !.cookies = r]
          /\ exc' = IF raised THEN r.kind ELSE exc
          /\ pc' = AfterReadExpectedCookies(raised)
  /\ UNCHANGED <<jar, old_cookies, S, sent, got, global_follow_redirects, call, verifyVars>>

\* RestRequest.__init__: request_args.update(allow_redirects=...), Box(...).
InitRedirects ==
  /\ pc = "init_redirects"
  /\ \E f \in OptBool :
       request_args' = [request_args EXCEPT !.allow_redirects =
                          check_allow_redirects(f, global_follow_redirects)]
  /\ pc' = "ready"
  /\ UNCHANGED <<jar, exc, old_cookies, S, sent, got, global_follow_redirects, call, verifyVars>>

\* _set_cookies_for_request up to its yield: with cookies in request_args the
\* jar is saved as a dict and replaced by an empty jar.
EnterJar(j) == cookiejar_from_dict(EmptyDict)

\* run() -> prepared_request(): stack.enter_context(_set_cookies_for_request).
RunEnter ==
  /\ pc = "ready"
  /\ S' = dict_from_cookiejar(jar)
  /\ IF request_args.cookies.kind = "dict"
       THEN /\ old_cookies' = dict_from_cookiejar(jar)
            /\ jar' = EnterJar(jar)
       ELSE UNCHANGED <<old_cookies, jar>>
  /\ pc' = "window"
  /\ UNCHANGED <<request_args, exc, sent, got, global_follow_redirects, call, verifyVars>>

\* session.request(**self._request_args): the cookies go out, the responses'
\* cookies are extracted into session.cookies, and the call returns or raises.
SessionRequest ==
  /\ pc = "window"
  /\ \E r \in Responses, ok \in BOOLEAN :
       /\ sent' = sent_cookies(jar, request_args.cookies)
       /\ jar' = extract_cookies_to_jar(jar, r)
       /\ got' = r
       /\ pc' = IF ok THEN "returned" ELSE "raised"
  /\ UNCHANGED <<request_args, exc, old_cookies, S, global_follow_redirects, call, verifyVars>>

\* _set_cookies_for_request after its yield, reached when the with block ends
\* normally: session.cookies = cookiejar_from_dict(old_cookies).
\* The same without the restoring assignment.
ExitKeepsJar(j, old) == j
ExitJar(j, old) == cookiejar_from_dict(old)

RunExit ==
  /\ pc = "returned"
  /\ jar' = IF request_args.cookies.kind = "dict"
              THEN ExitJar(jar, old_cookies) ELSE jar
  /\ pc' = "done"
  /\ UNCHANGED <<request_args, exc, old_cookies, S, sent, got,
                 global_follow_redirects, call, verifyVars>>

\* The call raised: the exception is thrown into the generator at its yield,
\* which has no try/finally, so the line after the yield does not run; run()
\* re-raises (a RequestException as RestRequestException).
\* What a try/finally around the yield would do instead.
RaiseRestoresJar(j, old, substituted) ==
  IF substituted THEN cookiejar_from_dict(old) ELSE j
RaiseJar(j, old, substituted) == j

RunRaise ==
  /\ pc = "raised"
  /\ jar' = RaiseJar(jar, old_cookies, request_args.cookies.kind = "dict")
  /\ exc' = "RestRequestException"
  /\ pc' = "error"
  /\ UNCHANGED <<request_args, old_cookies, S, sent, got, global_follow_redirects, call, verifyVars>>

\* The runner goes on to the next stage with the same session (after a
\* failure: a retry of the stage, or the test's finally stages).
NextStage ==
  /\ pc \in {"done", "error", "failed"}
  /\ pc' = "idle"
  /\ request_args' = NoArgs
  /\ exc' = ""
  /\ old_cookies' = EmptyDict
  /\ S' = EmptyDict
  /\ sent' = EmptyDict
  /\ got' = NoResponse
  /\ UNCHANGED <<jar, global_follow_redirects, call, verifyVars>>

Next ==
  \/ InitBegin
  \/ InitCookies
  \/ InitRedirects
  \/ RunEnter
  \/ SessionRequest
  \/ RunExit
  \/ RunRaise
  \/ NextStage

Spec == Init /\ [][Next]_vars

\* ------------------------------------------- the helpers, called directly
\* Session jars the helpers are called on: made by cookiejar_from_dict, or
\* filled by responses.
SessionsTried == {j \in Jars : j.own = EmptyDict \/ j.host = EmptyHost}

\* _read_expected_cookies(session, rspec, test_block_config) on a session and
\* a cookies directive.
CallReadExpectedCookies ==
  /\ call.fn = ""
  /\ \E j \in SessionsTried, d \in Directives :
       call' = [NoCall EXCEPT !.fn = "_read_expected_cookies",
                              !.session = j,
                              !.directive = d,
                              !.result = read_expected_cookies(j, d)]
  /\ UNCHANGED <<jar, pc, request_args, exc, old_cookies, S, sent, got,
                 global_follow_redirects, verifyVars>>

\* _check_allow_redirects(rspec, test_block_config) on a stage's
\* follow_redirects key and the configured global setting.
CallCheckAllowRedirects ==
  /\ call.fn = ""
  /\ \E f \in OptBool :
       call' = [NoCall EXCEPT !.fn = "_check_allow_redirects",
                              !.follow = f,
                              !.allow = check_allow_redirects(
                                          f, global_follow_redirects)]
  /\ UNCHANGED <<jar, pc, request_args, exc, old_cookies, S, sent, got,
                 global_follow_redirects, verifyVars>>

\* get_request_args(rspec, test_block_config) on a stage's request spec.
CallGetRequestArgs ==
  /\ call.fn = ""
  /\ \E rspec \in Rspecs :
       call' = [NoCall EXCEPT !.fn = "get_request_args",
                              !.rspec = rspec,
                              !.out = get_request_args(rspec)]
  /\ UNCHANGED <<jar, pc, request_args, exc, old_cookies, S, sent, got,
                 global_follow_redirects, verifyVars>>

\* RestRequest.__init__ as one call, for what it does to rspec: pop
\* clear_session_cookies, check the keys, get_request_args,
\* _read_expected_cookies, _check_allow_redirects (which pops
\* follow_redirects). An exception leaves rspec as the lines before it did.
RestRequest_init(session, rspec, cookies_to_use) ==
  LET popped == [rspec EXCEPT !.clear_session_cookies = "None"]
      cleared == IF rspec.clear_session_cookies = "True"
                   THEN clear_session_cookies(session) ELSE session
      args == get_request_args(popped)
      expected_cookies == read_expected_cookies(cleared, cookies_to_use)
  IN IF rspec.unexpected
       THEN Outcome("UnexpectedKeysError", "keys", {}, popped)
     ELSE IF args.error # "" THEN args
     ELSE IF expected_cookies.kind \notin {"None", "dict"}
       THEN Outcome(expected_cookies.kind, "cookies", {}, args.rspec)
     ELSE Outcome("", "", {}, [args.rspec EXCEPT !.follow_redirects = "None"])

\* The cookies directives the constructor is called with here: none, or a
\* list of at most one item (enough for _read_expected_cookies to return
\* None, return a dict, or raise).
ShortDirectives == {d \in Directives : Len(d.items) <= 1}

\* RestRequest(session, rspec, test_block_config) on the session's jar.
CallRestRequest ==
  /\ call.fn = ""
  /\ \E rspec \in Rspecs, d \in ShortDirectives :
       /\ call' = [NoCall EXCEPT !.fn = "RestRequest",
                                 !.rspec = rspec,
                                 !.out = RestRequest_init(jar, rspec, d)]
       /\ jar' = IF rspec.clear_session_cookies = "True"
                   THEN clear_session_cookies(jar) ELSE jar
  /\ UNCHANGED <<pc, request_args, exc, old_cookies, S, sent, got,
                 global_follow_redirects, verifyVars>>

\* The caller takes the result (or the exception); the next call can be made.
CallReturn ==
  /\ call.fn # ""
  /\ call' = NoCall
  /\ UNCHANGED <<jar, pc, request_args, exc, old_cookies, S, sent, got,
                 global_follow_redirects, verifyVars>>

HelperNext ==
  \/ CallReadExpectedCookies
  \/ CallCheckAllowRedirects
  \/ CallGetRequestArgs
  \/ CallRestRequest
  \/ CallReturn

HelperSpec == Init /\ [][HelperNext]_vars

\* ------------------------------------------------- response verification
sessionVars == <<jar, pc, request_args, exc, old_cookies, S, sent, got,
                 global_follow_redirects, call>>

\* An entry of self.errors: the check that recorded it, and whether the
\* message embeds the response body.
Err(check) == [check |-> check, with_body |-> FALSE]
ErrWithBody(check) == [check |-> check, with_body |-> TRUE]

\* BaseResponse._adderr: self.errors.append(...).
adderr(errs, e) == Append(errs, e)

\* A block of the response or of the expectations: a flat dict with at most
\* one key, the key in either letter case.
BlockKeys == {"Id", "id"}
EmptyBlock == [k \in {} |-> "x"]
Blocks == {EmptyBlock} \cup UNION {[{k} -> Vals] : k \in BlockKeys}
\* expected[blockname]: missing (KeyError), or a dict that may carry "$ext".
NoExpected == [present |-> FALSE, ext |-> FALSE, items |-> EmptyBlock]
ExpectedBlocks ==
  {NoExpected} \cup [present : {TRUE}, ext : BOOLEAN, items : Blocks]

\* str.lower on the keys of a block: {i.lower(): j for i, j in block.items()}.
lower(k) == IF k = "Id" THEN "id" ELSE k
lower_keys(block) ==
  [k \in {lower(i) : i \in DOMAIN block} |->
     block[CHOOSE i \in DOMAIN block : lower(i) = k]]

\* BaseResponse.recurse_check_key_match: whether the block fails to match the
\* expected block. No expected block matches anything; every expected key
\* must be in the block with the expected value; under strict matching the
\* block may hold no other key.
key_mismatch(expected_items, has_block, block, strict) ==
  \/ ~has_block
  \/ \E k \in DOMAIN expected_items :
       k \notin DOMAIN block \/ block[k] # expected_items[k]
  \/ strict /\ DOMAIN block # DOMAIN expected_items

\* RestResponse._get_redirect_query_params: with no location header, an error
\* is recorded when the stage wants to save from redirect_query_params.
get_redirect_query_params_errors(errs, has_location, wants_save) ==
  IF ~has_location /\ wants_save
    THEN adderr(errs, Err("no redirect url")) ELSE errs

\* RestResponse._check_status_code: expected is an int or a list of ints.
StatusCodes == {200, 404, 500}
ExpectedStatus == {[islist |-> FALSE, codes |-> {200}],
                   [islist |-> TRUE, codes |-> {200, 404}]}
status_matches(status_code, expected_code) == status_code \in expected_code.codes
\* The same without the final else branch.
check_status_code_4xx_only(errs, status_code, expected_code) ==
  IF status_matches(status_code, expected_code) THEN errs
  ELSE IF 400 <= status_code /\ status_code < 500
    THEN adderr(errs, ErrWithBody("status_code"))
  ELSE errs
check_status_code(errs, status_code, expected_code) ==
  IF status_matches(status_code, expected_code) THEN errs
  ELSE IF 400 <= status_code /\ status_code < 500
    THEN adderr(errs, ErrWithBody("status_code"))
  ELSE adderr(errs, Err("status_code"))

\* verify(): self._verbose_log_response(response), which asks for the
\* redirect query parameters of the response to log them.
VerboseLogResponse ==
  /\ vpc = "new"
  /\ \E has_location \in BOOLEAN, wants_save \in BOOLEAN :
       /\ location' = has_location
       /\ save_redirect' = wants_save
       /\ errors' = get_redirect_query_params_errors(errors, has_location, wants_save)
       /\ violated' = IF ~has_location /\ wants_save
                        THEN violated \cup {"no redirect url"} ELSE violated
  /\ vpc' = "hook"
  /\ UNCHANGED <<saved, outcome, executed, sessionVars>>

\* verify(): call_hook(... "pytest_tavern_beta_after_every_response" ...),
\* outside any try: an exception of the hook leaves verify at once.
HookResult(errs, raises) ==
  IF raises THEN [errors |-> errs, outcome |-> "HookException", vpc |-> "done"]
  ELSE [errors |-> errs, outcome |-> "", vpc |-> "redirect"]

CallHook ==
  /\ vpc = "hook"
  /\ \E raises \in BOOLEAN :
       LET r == HookResult(errors, raises)
       IN /\ errors' = r.errors
          /\ outcome' = r.outcome
          /\ vpc' = r.vpc
          /\ violated' = IF raises THEN violated \cup {"hook"} ELSE violated
  /\ executed' = executed \cup {"hook"}
  /\ UNCHANGED <<location, save_redirect, saved, sessionVars>>

\* verify(): body = response.json() or None;
\* redirect_query_params = self._get_redirect_query_params(response).
GetRedirectQueryParams ==
  /\ vpc = "redirect"
  /\ errors' = get_redirect_query_params_errors(errors, location, save_redirect)
  /\ vpc' = "status"
  /\ UNCHANGED <<location, save_redirect, saved, outcome, violated, executed,
                 sessionVars>>

\* verify(): self._check_status_code(response.status_code, body).
StatusNext == "json"
CheckStatusCode ==
  /\ vpc = "status"
  /\ \E status_code \in StatusCodes, expected_code \in ExpectedStatus :
       /\ errors' = check_status_code(errors, status_code, expected_code)
       /\ violated' = IF status_code \in expected_code.codes THEN violated
                      ELSE violated \cup {"status_code"}
  /\ executed' = executed \cup {"status_code"}
  /\ vpc' = StatusNext
  /\ UNCHANGED <<location, save_redirect, saved, outcome, sessionVars>>

\* RestResponse._validate_block(blockname, block): a "$ext" key in the
\* expected block raises MisplacedExtBlockException; header keys are compared
\* in lower case; the match itself is recurse_check_key_match.
validate_block(errs, blockname, expected_block, has_block, block, strict) ==
  IF expected_block.present /\ expected_block.ext
    THEN [raised |-> TRUE, errors |-> errs]
  ELSE IF ~expected_block.present
    THEN [raised |-> FALSE, errors |-> errs]
  ELSE LET b == IF blockname = "headers" THEN lower_keys(block) ELSE block
           e == IF blockname = "headers" THEN lower_keys(expected_block.items)
                ELSE expected_block.items
       IN [raised |-> FALSE,
           errors |-> IF key_mismatch(e, has_block, b, strict)
                        THEN adderr(errs, Err(blockname)) ELSE errs]

AfterBlock(blockname) ==
  IF blockname = "json" THEN "headers"
  ELSE IF blockname = "headers" THEN "redirect_query_params"
  ELSE "validate_functions"

\* verify(): self._validate_block("json", body), ("headers", response.headers),
\* ("redirect_query_params", redirect_query_params). The body is None when the
\* response is not JSON; there are always headers; the redirect query
\* parameters are {} without a location header.
ValidateBlock(blockname) ==
  /\ vpc = blockname
  /\ \E expected_block \in ExpectedBlocks, block \in Blocks,
        is_json \in BOOLEAN, strict \in BOOLEAN :
       LET has_block == blockname = "json" => is_json
           actual == IF blockname = "redirect_query_params" /\ ~location
                       THEN EmptyBlock ELSE block
           r == validate_block(errors, blockname, expected_block, has_block,
                               actual, strict)
       IN /\ errors' = r.errors
          /\ outcome' = IF r.raised THEN "MisplacedExtBlockException" ELSE outcome
          /\ vpc' = IF r.raised THEN "done" ELSE AfterBlock(blockname)
          /\ violated' = IF Len(r.errors) > Len(errors)
                           THEN violated \cup {blockname} ELSE violated
  /\ executed' = executed \cup {blockname}
  /\ UNCHANGED <<location, save_redirect, saved, sessionVars>>

\* verify(): self._maybe_run_validate_functions(response) - a failing
\* external validator is recorded as an error.
RunValidateFunctions ==
  /\ vpc = "validate_functions"
  /\ \E fails \in BOOLEAN :
       /\ errors' = IF fails THEN adderr(errors, Err("verify_response_with"))
                    ELSE errors
       /\ violated' = IF fails THEN violated \cup {"verify_response_with"}
                      ELSE violated
  /\ executed' = executed \cup {"verify_response_with"}
  /\ vpc' = "save_json"
  /\ UNCHANGED <<location, save_redirect, saved, outcome, sessionVars>>

AfterSave(key) ==
  IF key = "json" THEN "save_headers"
  ELSE IF key = "headers" THEN "save_redirect_query_params"
  ELSE "save_ext"

\* verify(): saved.update(self.maybe_get_save_values_from_save_block(key, ...))
\* for "json", "headers" and "redirect_query_params": with a save directive
\* for the key, the values found are saved; a source that is absent or lacks
\* the value is recorded as an error.
SaveBlock(key) ==
  /\ vpc = "save_" \o key
  /\ \E wants \in BOOLEAN, found \in BOOLEAN :
       LET asked == IF key = "redirect_query_params" THEN save_redirect ELSE wants
           there == IF key = "redirect_query_params" THEN found /\ location
                    ELSE found
       IN /\ saved' = IF asked /\ there THEN saved \cup {key} ELSE saved
          /\ errors' = IF asked /\ ~there THEN adderr(errors, Err("save " \o key))
                       ELSE errors
  /\ vpc' = AfterSave(key)
  /\ UNCHANGED <<location, save_redirect, outcome, violated, executed, sessionVars>>

\* verify(): saved.update(self.maybe_get_save_values_from_ext(response,
\* self.expected)); an error of the external function is fatal for the stage.
SaveExt ==
  /\ vpc = "save_ext"
  /\ \E wants \in BOOLEAN, raises \in BOOLEAN :
       /\ saved' = IF wants /\ ~raises THEN saved \cup {"$ext"} ELSE saved
       /\ outcome' = IF wants /\ raises THEN "ExtFunctionError" ELSE outcome
       /\ vpc' = IF wants /\ raises THEN "done" ELSE "cookies"
  /\ UNCHANGED <<errors, location, save_redirect, violated, executed, sessionVars>>

\* for cookie in self.expected.get("cookies", []): an error for each expected
\* cookie that is not in response.cookies, in the order of the list.
CookieLists == {<<>>, <<"a">>, <<"b">>, <<"a", "b">>, <<"b", "a">>}
RECURSIVE check_cookies(_, _, _, _)
check_cookies(errs, expected_cookies, response_cookies, i) ==
  IF i > Len(expected_cookies) THEN errs
  ELSE check_cookies(
         IF expected_cookies[i] \notin response_cookies
           THEN adderr(errs, Err("cookie " \o expected_cookies[i])) ELSE errs,
         expected_cookies, response_cookies, i + 1)

CheckCookies ==
  /\ vpc = "cookies"
  /\ \E expected_cookies \in CookieLists, response_cookies \in SUBSET Names :
       /\ errors' = check_cookies(errors, expected_cookies, response_cookies, 1)
       /\ violated' = violated \cup
            {"cookie " \o expected_cookies[i] :
               i \in {k \in DOMAIN expected_cookies :
                        expected_cookies[k] \notin response_cookies}}
  /\ executed' = executed \cup {"cookies"}
  /\ vpc' = "finish"
  /\ UNCHANGED <<location, save_redirect, saved, outcome, sessionVars>>

\* verify(): if self.errors: raise TestFailError(failures=self.errors);
\* return saved.
\* The same without the check of self.errors.
FinishReturnsAnyway(errs) == "returned"
FinishOutcome(errs) == IF errs # <<>> THEN "TestFailError" ELSE "returned"

Finish ==
  /\ vpc = "finish"
  /\ outcome' = FinishOutcome(errors)
  /\ vpc' = "done"
  /\ UNCHANGED <<errors, location, save_redirect, saved, violated, executed,
                 sessionVars>>

\* RestResponse(...) for the next response: a new object, no errors yet.
NewResponse ==
  /\ vpc = "done"
  /\ vpc' = "new"
  /\ errors' = <<>>
  /\ location' = FALSE
  /\ save_redirect' = FALSE
  /\ saved' = {}
  /\ outcome' = ""
  /\ violated' = {}
  /\ executed' = {}
  /\ UNCHANGED sessionVars

VerifyNext ==
  \/ VerboseLogResponse
  \/ CallHook
  \/ GetRedirectQueryParams
  \/ CheckStatusCode
  \/ ValidateBlock("json")
  \/ ValidateBlock("headers")
  \/ ValidateBlock("redirect_query_params")
  \/ RunValidateFunctions
  \/ SaveBlock("json")
  \/ SaveBlock("headers")
  \/ SaveBlock("redirect_query_params")
  \/ SaveExt
  \/ CheckCookies
  \/ Finish
  \/ NewResponse

VerifySpec == Init /\ [][VerifyNext]_vars

\* ------------------------------------------------ cookie negotiation claims
IsReadCall == call.fn = "_read_expected_cookies"
CallItems == call.directive.items
VerbatimNames == {CallItems[i].name : i \in {k \in DOMAIN CallItems : ~CallItems[k].isdict}}
OverrideAt == {k \in DOMAIN CallItems : CallItems[k].isdict}
OverrideNames == UNION {DOMAIN CallItems[k].map : k \in OverrideAt}
InSession(n) == n \in DOMAIN call.session.own \/ n \in DOMAIN call.session.host
SessionValue(n) ==
  IF n \in DOMAIN call.session.host THEN call.session.host[n].value
  ELSE call.session.own[n]
NonEmptyDirective == call.directive.present /\ CallItems # <<>>
TwoMapsShareName ==
  \E i \in OverrideAt, k \in OverrideAt :
    i # k /\ (DOMAIN CallItems[i].map) \cap (DOMAIN CallItems[k].map) # {}
NameInBothForms == VerbatimNames \cap OverrideNames # {}
\* How many times a name is written in the directive.
Occurrences(n) ==
  Cardinality({k \in DOMAIN CallItems :
                 IF CallItems[k].isdict THEN n \in DOMAIN CallItems[k].map
                 ELSE CallItems[k].name = n})
OverrideValue(n) ==
  CallItems[CHOOSE k \in OverrideAt : n \in DOMAIN CallItems[k].map].map[n]

\* C3: a non-empty cookies directive in which two different override maps
\* contain the same cookie name always makes _read_expected_cookies raise
\* DuplicateCookieError, whatever the number of keys in each map.
C3_SharedOverrideAlwaysDuplicateError ==
  (IsReadCall /\ NonEmptyDirective /\ TwoMapsShareName)
    => call.result.kind = "DuplicateCookieError"

\* C4 as written: a name that is both a verbatim reference and an override key
\* makes _read_expected_cookies raise DuplicateCookieError, whether or not the
\* name is present in the session.
C4_BothFormsAlwaysDuplicateError ==
  (IsReadCall /\ NonEmptyDirective /\ NameInBothForms)
    => call.result.kind = "DuplicateCookieError"

\* C4 amended: a name in both forms makes _read_expected_cookies raise
\* DuplicateCookieError when every verbatim name of the directive is present
\* in the session, and MissingCookieError when one of them is absent.
C4_BothFormsDuplicateErrorWhenPresent ==
  (IsReadCall /\ NonEmptyDirective /\ NameInBothForms)
    => call.result.kind =
         (IF \A n \in VerbatimNames : InSession(n)
            THEN "DuplicateCookieError" ELSE "MissingCookieError")

\* A name in both forms, present in the session, in a directive whose override
\* maps are as many as their distinct names: the verbatim/override check raised.
C4_Witness ==
  /\ IsReadCall /\ NonEmptyDirective /\ NameInBothForms
  /\ \A n \in VerbatimNames : InSession(n)
  /\ Cardinality(OverrideAt) = Cardinality(OverrideNames)
  /\ call.result.kind = "DuplicateCookieError"

\* C5: a non-empty cookies directive with a verbatim name that is not in the
\* session's jar makes _read_expected_cookies raise MissingCookieError,
\* whatever else the directive contains.
C5_AbsentVerbatimNameMissingError ==
  (IsReadCall /\ NonEmptyDirective /\ \E n \in VerbatimNames : ~InSession(n))
    => call.result.kind = "MissingCookieError"

\* An absent verbatim name in a directive that also repeats an override name.
C5_Witness ==
  /\ IsReadCall /\ NonEmptyDirective
  /\ \E n \in VerbatimNames : ~InSession(n)
  /\ (TwoMapsShareName \/ NameInBothForms)
  /\ call.result.kind = "MissingCookieError"

\* C6: cookie negotiation returns None for an absent directive, {} for an
\* empty one, and otherwise (each override map naming at least one cookie),
\* when every verbatim name is in the session and no name is written twice,
\* the dict of each verbatim name with its session
\* value and each override name with its override value, raising nothing.
C6_NegotiatedMapping ==
  IsReadCall =>
    /\ ~call.directive.present => call.result = RetNone
    /\ (call.directive.present /\ CallItems = <<>>) => call.result = RetDict(EmptyDict)
    /\ (/\ NonEmptyDirective
        /\ \A k \in OverrideAt : CallItems[k].map # EmptyDict
        /\ \A n \in VerbatimNames : InSession(n)
        /\ \A n \in Names : Occurrences(n) <= 1)
         => call.result =
              RetDict([n \in VerbatimNames \cup OverrideNames |->
                         IF n \in VerbatimNames THEN SessionValue(n)
                         ELSE OverrideValue(n)])

\* ------------------------------------------------------ redirect claim
\* C10: _check_allow_redirects returns the per-stage follow_redirects when the
\* stage has one, otherwise the global setting when it is set, otherwise false.
C10_RedirectPrecedence ==
  call.fn = "_check_allow_redirects" =>
    call.allow = (IF call.follow # "None" THEN call.follow = "True"
                  ELSE IF global_follow_redirects # "None"
                    THEN global_follow_redirects = "True"
                  ELSE FALSE)

\* The stage says false while the global setting says true: the stage won.
C10_Witness ==
  /\ call.fn = "_check_allow_redirects"
  /\ call.follow = "False"
  /\ global_follow_redirects = "True"
  /\ call.allow = FALSE

\* -------------------------------------------- cookie substitution claims
Substituted == request_args.cookies.kind = "dict"

C2_MappingRestoredAfterCall ==
  (pc = "done" /\ Substituted) => dict_from_cookiejar(jar) = S

\* The call returned, its response set a cookie the session did not have that
\* way and expired another, and the session had cookies to restore.
C2_Witness ==
  /\ pc = "done" /\ Substituted
  /\ S # EmptyDict
  /\ \E n \in DOMAIN got.set : n \notin DOMAIN S \/ S[n] # got.set[n].value
  /\ dict_from_cookiejar(jar) = S
  /\ sent = request_args.cookies.cookies
  /\ sent # S

\* ------------------------------------------------- verification claims
AllChecks == {"status_code", "json", "headers", "redirect_query_params",
              "verify_response_with", "cookies"}
Recorded(check) == \E i \in DOMAIN errors : errors[i].check = check

\* C7: verify never raises the aggregate TestFailError before the status
\* check, the three block checks, the external validators and the
\* expected-cookie checks have all run, and the failure carries an error for
\* every expectation the response violates (status, header and body at once
\* give all three).
C7_AllChecksRunBeforeTestFailError ==
  outcome = "TestFailError" =>
    /\ AllChecks \subseteq executed
    /\ \A c \in violated : Recorded(c)

\* A response that violates status, a header and a body field at once.
C7_Witness ==
  /\ outcome = "TestFailError"
  /\ {"status_code", "headers", "json"} \subseteq violated
  /\ Recorded("status_code") /\ Recorded("headers") /\ Recorded("json")
  /\ Len(errors) >= 3

C9_HookFailureAccumulated ==
  (vpc = "done" /\ "hook" \in violated) =>
    /\ outcome = "TestFailError"
    /\ AllChecks \subseteq executed
    /\ Recorded("hook")


\* ------------------------------------------------------------------ C11
IsAssembly == call.fn = "get_request_args"
BodyError == call.out.error = "BadSchemaError" /\ call.out.about = "body"

\* C11: get_request_args raises BadSchemaError naming every body key present
\* when two or more of data, json, files, file_body are set and they are not
\* exactly data and files; with at most one of them, or with exactly data
\* and files, it raises no body-exclusivity error.
C11_BodyExclusivity ==
  IsAssembly =>
    IF Cardinality(call.rspec.body) >= 2 /\ call.rspec.body # {"data", "files"}
      THEN BodyError /\ call.out.named = call.rspec.body
      ELSE ~BodyError

\* Three body keys are set, data and files among them, and the error names
\* all three.
C11_Witness ==
  /\ IsAssembly
  /\ call.rspec.body = {"data", "files", "json"}
  /\ BodyError
  /\ call.out.named = {"data", "files", "json"}


\* ------------------------------------------------------------------ C12
\* The errors of a malformed stage spec.
ConstructErrors ==
  {"MissingCookieError", "DuplicateCookieError", "BadSchemaError"}
\* session.request has been called for the stage.
RequestMade == pc \in {"returned", "raised", "done", "error"}

\* C12: a MissingCookieError, DuplicateCookieError or BadSchemaError is
\* raised while the RestRequest is constructed, before session.request is
\* called for the stage: the step that raises it ends the construction, the
\* failed stage does nothing but give way to the next one, and
\* session.request is only ever called by a stage that raised nothing, with
\* cookies that were negotiated without an error.
C12_SpecErrorsBeforeNetworkCall ==
  [][/\ (exc' \in ConstructErrors /\ exc' # exc) =>
          /\ pc \in {"idle", "init_cookies"}
          /\ pc' = "failed"
     /\ exc' \in ConstructErrors => ~RequestMade'
     /\ pc = "failed" => pc' \in {"failed", "idle"}
     /\ (RequestMade' /\ ~RequestMade) =>
          /\ pc = "window"
          /\ exc = ""
          /\ request_args.cookies.kind \in {"None", "dict"}]_vars

\* A stage failed on a cookie named twice, on a session that holds cookies
\* from an earlier stage's call, and nothing was sent for it.
C12_Witness ==
  /\ pc = "failed"
  /\ exc = "DuplicateCookieError"
  /\ jar # EmptyJar
  /\ sent = EmptyDict
  /\ got = NoResponse


\* ------------------------------------------------------------------ C13
\* C13: in RestResponse.verify no save value is extracted from the response
\* (body, headers, redirect query parameters or external function) until
\* every verification check, the expected-cookie presence checks included,
\* has run.
C13_NoSaveBeforeAllChecks ==
  saved # {} => AllChecks \subseteq executed


\* ------------------------------------------------------------------ C14
\* C14: assembling a request leaves the caller's stage spec unchanged: after
\* get_request_args and after RestRequest construction rspec has the keys and
\* values it had before (no method or headers key added, no header removed or
\* renamed, no follow_redirects or clear_session_cookies key removed).
C14_RspecUnchanged ==
  (call.fn \in {"get_request_args", "RestRequest"} /\ call.out.error = "") =>
    call.out.rspec = call.rspec


\* ------------------------------------------------------------------ C15
\* C15: a stage that fails before its network call (unexpected key,
\* BadSchemaError, MissingCookieError or DuplicateCookieError raised while
\* RestRequest is constructed) leaves the session's cookie jar as it was
\* before the stage, also when the stage spec sets clear_session_cookies:
\* the step of the constructor that raises does not change the jar.
C15_FailedStageLeavesJar ==
  [][(pc \in {"idle", "init_cookies"} /\ pc' = "failed") => jar' = jar]_vars


\* ------------------------------------------------------------------ C16
\* The entries of self.errors recorded for the missing redirect URL.
NoRedirectUrlErrors ==
  {i \in DOMAIN errors : errors[i] = Err("no redirect url")}

\* C16: when the stage saves from redirect_query_params and the response has
\* no location header, one call of verify records exactly one error for the
\* missing redirect URL: the errors of the raised TestFailError hold it once.
C16_MissingRedirectRecordedOnce ==
  (outcome = "TestFailError" /\ save_redirect /\ ~location) =>
    Cardinality(NoRedirectUrlErrors) = 1

====
